---- MODULE Spec2Model ----
(***************************************************************************)
(* Model of src/ENVIO_EMAIL.py: Power BI export automation.                *)
(*                                                                         *)
(* Three specifications share the module:                                  *)
(*   SpecIdle      wait_report_idle, the readiness detector, under a       *)
(*                 simulated clock and an arbitrary busy signal;           *)
(*   SpecDownload  wait_for_pdf_download, the download watcher, over a     *)
(*                 directory that the browser changes concurrently;        *)
(*   Spec          the scheduling loop, main, run_all_reports and          *)
(*                 process_single_report with the export protocol.         *)
(*                                                                         *)
(* Clock values are tenths of a second: time.sleep(0.4) is 4 ticks.        *)
(* The clock is the simulated one of the readiness and watcher tests: it   *)
(* advances in time.sleep only.                                            *)
(***************************************************************************)
EXTENDS Integers, Sequences, FiniteSets, TLC

VARIABLES
    \* ---- wait_report_idle (SpecIdle)
    wi_pc,            \* "off" | "call" | "loop" | "ok" | "timeout"
    wi_now,           \* time.time(), in ticks
    wi_timeout,       \* parameter timeout, in ticks
    wi_stable,        \* parameter stable_required, in ticks
    wi_end,           \* local end
    wi_stable_start,  \* local stable_start; None is -1
    wi_polls,         \* history: what each poll observed, <<time, busy>>
    \* ---- wait_for_pdf_download (SpecDownload)
    dl_pc,            \* "off" | "call" | "loop" | "recheck" | "ok" | "timeout"
    dl_now,           \* time.time(), in ticks
    dl_timeout,       \* parameter timeout, in ticks
    dl_deadline,      \* local deadline
    dl_started,       \* local started
    dl_latest,        \* local latest (a file of the directory), "none" before
    dl_s1,            \* local s1
    dl_existing,      \* parameter existing_files: the names of the snapshot
    dl_dir,           \* the directory download_dir: file -> [ext, size, open]
    dl_order,         \* the files of the directory, by time of last modification
    dl_listedTemp,    \* history: did os.listdir see a new partial-named entry:
                      \* "now" (the last listing), "before" (an earlier one), "no"
    \* ---- open_export_menu_unified (SpecNav)
    nv_pc,            \* "off" | "call" | "try" | "ret" | "noviable" | "escaped"
    nv_k,             \* the strategy whose try block is running, 0 before
    nv_click,         \* clicks of that strategy made so far
    nv_tag,           \* the value returned, "" before
    nv_started,       \* history: the strategies started, in order
    nv_log,           \* history: the failures logged, [strategy, err], in order
    \* ---- switch_to_frame_with (SpecFrame)
    sf_pc,            \* "off" | "call" | "while" | "top" | "list" | "frame" |
                      \* "True" | "False" | "raised"
    sf_now,           \* time.time(), in units of the sleep of line 229
    sf_end,           \* local end
    sf_n,             \* len(frames) of the running sweep
    sf_k,             \* position in frames of the loop variable fr
    sf_ctx,           \* the driver's context: 0 the top-level document, i the
                      \* i-th iframe, None when a switch raised
    sf_sweepAt,       \* history: the time at which the running sweep began
    sf_log,           \* history of the running sweep: [doc, out] per document
    \* ---- the notification body, main lines 702-703 (SpecMail)
    ml_pc,            \* "off" | "call" | "built" | "done"
    ml_reports,       \* REPORTS: the names of the reports, as strings of characters
    ml_result,        \* what process_single_report returned per report: the
                      \* basename of its final path, or <<>> for None
    ml_ok_paths,      \* ok_paths of run_all_reports (basenames)
    ml_falhas,        \* falhas of run_all_reports
    ml_ok_reports,    \* local ok_reports: positions in REPORTS
    ml_body,          \* the lists of the body: [processed, failures], names
    \* ---- the scheduling loop and main (Spec)
    day,              \* the calendar day
    DATA_HOJE,        \* module global DATA_HOJE; names RUN_DIR and PDF_FINAL_PATH
    sched_last,       \* the day of the job's last run, None before the first
    run_day,          \* history: the day on which the current run of main began
    FORCE_EXPORT_IMMEDIATE,  \* module global, from the environment
    IMMEDIATE_TRIES,  \* module global, from the environment
    REPORTS,          \* module global: the report list
    m_pc,             \* where main is: "off" | "sched" | "setup" | "run" | "check" |
                      \* "merge" | "recipients" | "send" | "finally"
    m_exc,            \* an exception is propagating out of main's try block
    driver,           \* the browser session: "none" | "open" | "quit"
    merged,           \* what merge_pdfs wrote in this run: <<>> or <<paths>>
    sent,             \* what was handed to Outlook in this run: <<>> or <<mail>>
    \* ---- run_all_reports
    r_status,         \* "idle" | "running" | "returned" | "raised"
    r_i,              \* index in reports of the loop variable rep
    ok_paths,         \* local ok_paths
    falhas,           \* local falhas
    \* ---- process_single_report
    p_pc,             \* "none" | "next" | "start" | "snapshot" | "load" | "export" |
                      \* "nav" | "subclick" | "confirm" | "refresh" | "fallback" |
                      \* "download" | "move" | "rule" | "ret" | "fail"
    p_attempt,        \* loop variable attempt
    p_mode,           \* "immediate" | "fallback": who called export_to_pdf_immediate
    p_immediate_ok,   \* local immediate_ok
    p_final,          \* local final_path, <<>> before
    \* ---- history of the report being processed
    p_ops,            \* kinds of interaction made for it so far: "snapshot" |
                      \* "load" | "export" (the export stage was reached) |
                      \* "click" | "refresh" | "idle_wait" | "download_wait" | "move"
    p_navAttempts,    \* navigation+confirm attempts started
    p_immFailed,      \* immediate attempts that failed
    p_fallbacks,      \* times the idle-gated fallback was entered
    p_confirmFailed,  \* modes in which confirm_pdf_export failed
    p_reloads,        \* driver.refresh() calls that returned
    p_idle,           \* wait_report_idle in the fallback: "none" | "ok" | "timeout"
    p_navTag,         \* local path_used of the running export_to_pdf_immediate, "" before
    p_subclicked,     \* the running export_to_pdf_immediate clicked the PDF format
    p_confirmed,      \* confirm_pdf_export returned True for this report
    p_downloaded,     \* wait_for_pdf_download returned a path for this report
    m_quits,          \* history: how each driver.quit() of this run ended
    m_recipients,     \* local recipients of main: "unread" | "some" | "empty"
    run_files,        \* the names of the files written in RUN_DIR in this run
    run_ops           \* history of the run: what it has done so far: "browser"
                      \* (session opened) | "page" (load, click, refresh, lookup) |
                      \* "files" (RUN_DIR listed or written) | "merge" |
                      \* "recipients" | "send"

idleVars == <<wi_pc, wi_now, wi_timeout, wi_stable, wi_end, wi_stable_start, wi_polls>>

dlVars == <<dl_pc, dl_now, dl_timeout, dl_deadline, dl_started, dl_latest, dl_s1,
            dl_existing, dl_dir, dl_order, dl_listedTemp>>

schedVars == <<day, DATA_HOJE, sched_last, run_day>>

configVars == <<FORCE_EXPORT_IMMEDIATE, IMMEDIATE_TRIES, REPORTS>>

mainVars == <<m_pc, m_exc, driver, merged, sent>>

runVars == <<r_status, r_i, ok_paths, falhas>>

reportVars == <<p_pc, p_attempt, p_mode, p_immediate_ok, p_final>>

historyVars == <<p_ops, p_navAttempts, p_immFailed, p_fallbacks, p_confirmFailed, run_ops>>

protoVars == <<p_reloads, p_idle, p_navTag, p_subclicked, p_confirmed, p_downloaded>>

outVars == <<m_recipients, run_files, m_quits>>

batchVars == <<schedVars, configVars, mainVars, runVars, reportVars, historyVars,
               protoVars, outVars>>

navVars == <<nv_pc, nv_k, nv_click, nv_tag, nv_started, nv_log>>

frameVars == <<sf_pc, sf_now, sf_end, sf_n, sf_k, sf_ctx, sf_sweepAt, sf_log>>

mailVars == <<ml_pc, ml_reports, ml_result, ml_ok_paths, ml_falhas, ml_ok_reports, ml_body>>

vars == <<idleVars, dlVars, navVars, frameVars, mailVars, batchVars>>

\* What the steps of each part leave alone.
notIdle == <<dlVars, navVars, frameVars, mailVars, batchVars>>
notDownload == <<idleVars, navVars, frameVars, mailVars, batchVars>>
notNav == <<idleVars, dlVars, frameVars, mailVars, batchVars>>
notFrame == <<idleVars, dlVars, navVars, mailVars, batchVars>>
notMail == <<idleVars, dlVars, navVars, frameVars, batchVars>>
notBatch == <<idleVars, dlVars, navVars, frameVars, mailVars>>

None == -1

\* Seconds as clock ticks.
Ticks(seconds) == seconds * 10

(***************************************************************************)
(* wait_report_idle, lines 277-296                                         *)
(***************************************************************************)

\* Longest timeout (seconds) handed to wait_report_idle in SpecIdle.
MaxIdleTimeoutSec == 6

\* time.sleep(0.4) at the end of each iteration of wait_report_idle.
IDLE_POLL_TICKS == 4

\* The default of IDLE_STABLE_SECONDS.
IDLE_STABLE_SECONDS == 5

\* Values of the parameter stable_required (seconds): the default, one that
\* is a whole number of poll intervals (2.0 s = 5 polls) and one that is not.
StableChoices == {1, 2, IDLE_STABLE_SECONDS}

\* Values of the parameter timeout (seconds).
IdleTimeoutChoices == {3, MaxIdleTimeoutSec}

\* end = time.time() + timeout
WaitIdleEnd(t, timeout) == t + timeout

\* while time.time() < end
WaitIdleLoopCondEarly(t, end) == t + IDLE_POLL_TICKS < end
WaitIdleLoopCond(t, end) == t < end

\* if time.time() - stable_start >= stable_required
StableReachedStrict(t, ss, required) == t - ss > required
StableReached(t, ss, required) == t - ss >= required

\* stable_start after a poll that saw no loading indicator:
\* if stable_start is None: stable_start = time.time()
StableStartOnIdle(t, ss) == IF ss = None THEN t ELSE ss

\* stable_start after a poll that saw a loading indicator: stable_start = None
StableStartKept(t, ss) == ss
StableStartOnBusy(t, ss) == None

InitIdle ==
    /\ wi_pc = "call"
    /\ wi_now = 0
    /\ wi_timeout \in {Ticks(s) : s \in IdleTimeoutChoices}
    /\ wi_stable \in {Ticks(s) : s \in StableChoices}
    /\ wi_end = 0
    /\ wi_stable_start = None
    /\ wi_polls = <<>>

ParkIdle ==
    /\ wi_pc = "off"
    /\ wi_now = 0
    /\ wi_timeout = 0
    /\ wi_stable = 0
    /\ wi_end = 0
    /\ wi_stable_start = None
    /\ wi_polls = <<>>

\* Lines 282-283: the prologue of the call.
WaitIdleEnter ==
    /\ wi_pc = "call"
    /\ wi_end' = WaitIdleEnd(wi_now, wi_timeout)
    /\ wi_stable_start' = None
    /\ wi_pc' = "loop"
    /\ UNCHANGED <<wi_now, wi_timeout, wi_stable, wi_polls, notIdle>>

\* Lines 284-295: one iteration of the loop; busy is what
\* _has_loading_indicators returns at this poll.
WaitIdleIteration ==
    /\ wi_pc = "loop"
    /\ WaitIdleLoopCond(wi_now, wi_end)
    /\ \E busy \in BOOLEAN :
        LET ss == IF busy THEN StableStartOnBusy(wi_now, wi_stable_start)
                          ELSE StableStartOnIdle(wi_now, wi_stable_start)
        IN /\ wi_polls' = Append(wi_polls, <<wi_now, busy>>)
           /\ wi_stable_start' = ss
           /\ IF ~busy /\ StableReached(wi_now, ss, wi_stable)
                 THEN /\ wi_pc' = "ok"
                      /\ wi_now' = wi_now
                 ELSE /\ wi_pc' = "loop"
                      /\ wi_now' = wi_now + IDLE_POLL_TICKS
    /\ UNCHANGED <<wi_timeout, wi_stable, wi_end, notIdle>>

\* Line 296: the loop condition failed; raise TimeoutError.
WaitIdleRaise ==
    /\ wi_pc = "loop"
    /\ ~WaitIdleLoopCond(wi_now, wi_end)
    /\ wi_pc' = "timeout"
    /\ UNCHANGED <<wi_now, wi_timeout, wi_stable, wi_end, wi_stable_start, wi_polls,
                   notIdle>>

NextIdle ==
    \/ WaitIdleEnter
    \/ WaitIdleIteration
    \/ WaitIdleRaise

(***************************************************************************)
(* wait_for_pdf_download, lines 468-511, and the directory it watches      *)
(***************************************************************************)

\* Longest timeout (seconds) handed to wait_for_pdf_download in SpecDownload.
MaxDownloadTimeoutSec == 4

\* Largest file size (in blocks) the browser writes.
MaxSize == 2

\* time.sleep(0.8) at the end of each iteration of the watch loop.
DL_POLL_TICKS == 8

\* time.sleep(1.2) between the two size reads.
DL_RECHECK_TICKS == 12

\* The files the browser may write while a report is processed: the download
\* of the report's own export, and the download of an earlier export that
\* had not finished when that report was given up.
Downloads == {"own", "late"}

\* Extensions of the names the browser gives a file.
TempExts == {"crdownload", "tmp", "part", "partial"}
FinalExts == {"pdf", "PDF"}

\* str.lower() on the extensions in use.
Lower(e) == IF e = "PDF" THEN "pdf" ELSE e

\* _is_temp_file: f = fn.lower(); f.endswith((".crdownload", ".tmp", ".part", ".partial"))
IsTempFileNoTmp(e) == Lower(e) \in {"crdownload", "part", "partial"}
IsTempFile(e) == Lower(e) \in {"crdownload", "tmp", "part", "partial"}

\* n.lower().endswith(".pdf")
IsPdfName(e) == Lower(e) = "pdf"

\* n.lower().endswith((".pdf", ".crdownload", ".tmp", ".part", ".partial"))
IsStartName(e) == Lower(e) \in {"pdf", "crdownload", "tmp", "part", "partial"}

Absent == [ext |-> "", size |-> 0, open |-> FALSE]

\* os.listdir(download_dir): the names in the directory dir.
ListDir(dir) == {<<f, dir[f].ext>> : f \in {g \in DOMAIN dir : dir[g] # Absent}}

\* new = set(os.listdir(download_dir)) - existing_files
NewEntries(dir, existing) == ListDir(dir) \ existing

\* pdfs = [n for n in new if n.lower().endswith(".pdf")]
Pdfs(new) == {n \in new : IsPdfName(n[2])}

\* temps = [n for n in new if _is_temp_file(n)]
Temps(new) == {n \in new : IsTempFile(n[2])}

\* if pdfs and not temps
CompletionSeen(new) == Pdfs(new) # {} /\ Temps(new) = {}

\* Position of file f in the modification order (later is more recent).
MPos(order, f) == CHOOSE i \in 1..Len(order) : order[i] = f

\* max(paths, key=os.path.getmtime)
Latest(order, pdfs) ==
    CHOOSE n \in pdfs : \A m \in pdfs : MPos(order, m[1]) <= MPos(order, n[1])

\* The modification order after file f is created or written.
Touch(order, f) == Append(SelectSeq(order, LAMBDA g : g # f), f)

\* if s1 == s2 and s2 > 0
SizeStableAllowEmpty(s1, s2) == s1 = s2
SizeStable(s1, s2) == s1 = s2 /\ s2 > 0

\* The directory when the caller takes the snapshot (line 572): the own
\* download is not there; the late one is not there either or is a partial
\* file the browser is still writing.
InitDirs ==
    {[f \in Downloads |-> IF f = "late" THEN late ELSE Absent] :
        late \in {Absent} \cup [ext : {"crdownload"}, size : 0..1, open : {TRUE}]}

InitDownload ==
    /\ dl_pc = "call"
    /\ dl_now = 0
    /\ dl_timeout \in {Ticks(2), Ticks(MaxDownloadTimeoutSec)}
    /\ dl_deadline = 0
    /\ dl_started = FALSE
    /\ dl_latest = "none"
    /\ dl_s1 = 0
    /\ dl_dir \in InitDirs
    /\ dl_order = IF dl_dir["late"] = Absent THEN <<>> ELSE <<"late">>
    /\ dl_existing = ListDir(dl_dir)
    /\ dl_listedTemp = "no"

ParkDownload ==
    /\ dl_pc = "off"
    /\ dl_now = 0
    /\ dl_timeout = 0
    /\ dl_deadline = 0
    /\ dl_started = FALSE
    /\ dl_latest = "none"
    /\ dl_s1 = 0
    /\ dl_dir = [f \in Downloads |-> Absent]
    /\ dl_order = <<>>
    /\ dl_existing = {}
    /\ dl_listedTemp = "no"

watchLocals == <<dl_pc, dl_now, dl_timeout, dl_deadline, dl_started, dl_latest,
                 dl_s1, dl_existing, dl_listedTemp>>

\* ---- the browser, writing downloads into the directory

BrowserActive == dl_pc \in {"call", "loop", "recheck"}

\* A download's file appears, under a temporary name or under its final one.
BrowserCreate(f, e) ==
    /\ BrowserActive
    /\ dl_dir[f] = Absent
    /\ dl_dir' = [dl_dir EXCEPT ![f] = [ext |-> e, size |-> 0, open |-> TRUE]]
    /\ dl_order' = Touch(dl_order, f)
    /\ UNCHANGED <<watchLocals, notDownload>>

\* The browser appends to a file it still has open.
BrowserWrite(f) ==
    /\ BrowserActive
    /\ dl_dir[f] # Absent
    /\ dl_dir[f].open
    /\ dl_dir[f].size < MaxSize
    /\ dl_dir' = [dl_dir EXCEPT ![f].size = @ + 1]
    /\ dl_order' = Touch(dl_order, f)
    /\ UNCHANGED <<watchLocals, notDownload>>

\* The browser closes a file: its size no longer changes.
BrowserClose(f) ==
    /\ BrowserActive
    /\ dl_dir[f] # Absent
    /\ dl_dir[f].open
    /\ dl_dir' = [dl_dir EXCEPT ![f].open = FALSE]
    /\ UNCHANGED <<watchLocals, dl_order, notDownload>>

\* The browser renames a temporary file to its final name.
BrowserRename(f, e) ==
    /\ BrowserActive
    /\ dl_dir[f] # Absent
    /\ dl_dir[f].ext \in TempExts
    /\ dl_dir' = [dl_dir EXCEPT ![f].ext = e]
    /\ UNCHANGED <<watchLocals, dl_order, notDownload>>

\* ---- wait_for_pdf_download

\* The names the watcher must not return on: .crdownload, .tmp, .part,
\* .partial, whatever the case of the letters.
PartialNamed(e) ==
    e \in {"crdownload", "tmp", "part", "partial",
           "CRDOWNLOAD", "TMP", "PART", "PARTIAL"}

\* A partial-named entry that is not in the snapshot is in the directory.
PartialListed ==
    \E f \in Downloads :
        /\ dl_dir[f] # Absent
        /\ <<f, dl_dir[f].ext>> \notin dl_existing
        /\ PartialNamed(dl_dir[f].ext)

\* Lines 481-483: the prologue of the call.
WatchEnter ==
    /\ dl_pc = "call"
    /\ dl_deadline' = dl_now + dl_timeout
    /\ dl_started' = FALSE
    /\ dl_pc' = "loop"
    /\ UNCHANGED <<dl_now, dl_timeout, dl_latest, dl_s1, dl_existing, dl_dir,
                   dl_order, dl_listedTemp, notDownload>>

\* Lines 485-500 and 510: one listing of the directory.  With a candidate it
\* reads s1 and sleeps 1.2 s; otherwise it sleeps 0.8 s and loops.
WatchPoll ==
    /\ dl_pc = "loop"
    /\ dl_now < dl_deadline
    /\ LET new == NewEntries(dl_dir, dl_existing)
           started == dl_started \/ \E n \in new : IsStartName(n[2])
       IN /\ dl_started' = started
          /\ dl_listedTemp' = IF PartialListed THEN "now"
                              ELSE IF dl_listedTemp = "no" THEN "no" ELSE "before"
          /\ IF started /\ CompletionSeen(new)
                THEN /\ dl_latest' = Latest(dl_order, Pdfs(new))[1]
                     /\ dl_s1' = dl_dir[Latest(dl_order, Pdfs(new))[1]].size
                     /\ dl_now' = dl_now + DL_RECHECK_TICKS
                     /\ dl_pc' = "recheck"
                ELSE /\ dl_now' = dl_now + DL_POLL_TICKS
                     /\ UNCHANGED <<dl_pc, dl_latest, dl_s1>>
    /\ UNCHANGED <<dl_timeout, dl_deadline, dl_existing, dl_dir, dl_order, notDownload>>

\* Lines 501-510: the second size read; return latest or sleep and loop.
WatchRecheck ==
    /\ dl_pc = "recheck"
    /\ IF SizeStable(dl_s1, dl_dir[dl_latest].size)
          THEN /\ dl_pc' = "ok"
               /\ dl_now' = dl_now
          ELSE /\ dl_pc' = "loop"
               /\ dl_now' = dl_now + DL_POLL_TICKS
    /\ UNCHANGED <<dl_timeout, dl_deadline, dl_started, dl_latest, dl_s1,
                   dl_existing, dl_dir, dl_order, dl_listedTemp, notDownload>>

\* Line 511: the loop condition failed; raise TimeoutError.
WatchRaise ==
    /\ dl_pc = "loop"
    /\ ~(dl_now < dl_deadline)
    /\ dl_pc' = "timeout"
    /\ UNCHANGED <<dl_now, dl_timeout, dl_deadline, dl_started, dl_latest, dl_s1,
                   dl_existing, dl_dir, dl_order, dl_listedTemp, notDownload>>

NextDownload ==
    \/ \E f \in Downloads, e \in TempExts \cup FinalExts : BrowserCreate(f, e)
    \/ \E f \in Downloads : BrowserWrite(f)
    \/ \E f \in Downloads : BrowserClose(f)
    \/ \E f \in Downloads, e \in FinalExts : BrowserRename(f, e)
    \/ WatchEnter
    \/ WatchPoll
    \/ WatchRecheck
    \/ WatchRaise

(***************************************************************************)
(* open_export_menu_unified, lines 299-357                                 *)
(***************************************************************************)

\* The three try blocks, in the order of the source, and what each returns.
Strategies == 1..3
StrategyTag == <<"direct", "overflow", "filemenu">>

\* The calls of click_anywhere in each try block (lines 314, 325-332,
\* 343-350).
StrategyClicks == <<1, 2, 3>>

\* What click_anywhere raises: the element is in no frame (line 238), it
\* never becomes clickable or present (lines 240-242), it went stale under
\* the click (lines 244-249).
ClickErrors == {"notfound", "notclickable", "stale"}

\* except Exception as e (lines 317, 335, 353).
CaughtUnlessStale(err) == err # "stale"
Caught(err) == err \in ClickErrors

\* The try block entered after the except clause of strategy k.
AfterStrategySkipping(k) == k + 2
AfterStrategy(k) == k + 1

InitNav ==
    /\ nv_pc = "call"
    /\ nv_k = 0
    /\ nv_click = 0
    /\ nv_tag = ""
    /\ nv_started = <<>>
    /\ nv_log = <<>>

ParkNav ==
    /\ nv_pc = "off"
    /\ nv_k = 0
    /\ nv_click = 0
    /\ nv_tag = ""
    /\ nv_started = <<>>
    /\ nv_log = <<>>

\* Line 307: pbix_ready(driver, wait), before the first try block; its
\* driver.switch_to.default_content() (line 256) is not guarded.
NavEnter ==
    /\ nv_pc = "call"
    /\ \E outcome \in {"ok", "raise"} :
          IF outcome = "ok"
             THEN /\ nv_pc' = "try"
                  /\ nv_k' = 1
                  /\ nv_started' = <<1>>
             ELSE /\ nv_pc' = "escaped"
                  /\ UNCHANGED <<nv_k, nv_started>>
    /\ UNCHANGED <<nv_click, nv_tag, nv_log, notNav>>

\* A click_anywhere of the running try block returns; after the last one
\* of the block the function returns the block's tag (lines 316, 334, 352).
NavClickOk ==
    /\ nv_pc = "try"
    /\ IF nv_click + 1 = StrategyClicks[nv_k]
          THEN /\ nv_pc' = "ret"
               /\ nv_tag' = StrategyTag[nv_k]
               /\ UNCHANGED nv_click
          ELSE /\ nv_click' = nv_click + 1
               /\ UNCHANGED <<nv_pc, nv_tag>>
    /\ UNCHANGED <<nv_k, nv_started, nv_log, notNav>>

\* A click_anywhere of the running try block raises: the except clause logs
\* it and the next try block starts, or, after the third, line 357 raises
\* RuntimeError.
NavClickRaise ==
    /\ nv_pc = "try"
    /\ \E err \in ClickErrors :
          IF Caught(err)
             THEN /\ nv_log' = Append(nv_log, [strategy |-> nv_k, err |-> err])
                  /\ IF AfterStrategy(nv_k) \in Strategies
                        THEN /\ nv_k' = AfterStrategy(nv_k)
                             /\ nv_started' = Append(nv_started, AfterStrategy(nv_k))
                             /\ nv_click' = 0
                             /\ UNCHANGED nv_pc
                        ELSE /\ nv_pc' = "noviable"
                             /\ UNCHANGED <<nv_k, nv_started, nv_click>>
             ELSE /\ nv_pc' = "escaped"
                  /\ UNCHANGED <<nv_k, nv_started, nv_click, nv_log>>
    /\ UNCHANGED <<nv_tag, notNav>>

NextNav ==
    \/ NavEnter
    \/ NavClickOk
    \/ NavClickRaise

(***************************************************************************)
(* switch_to_frame_with, lines 207-230.  Time is counted in units of the   *)
(* sleep between sweeps (0.3 s); a lookup takes no unit or one.            *)
(***************************************************************************)

\* Longest retry window, in sleeps.
MaxFrameTimeout == 3

\* Most iframes that the page has.
MaxFrames == 2

\* What a lookup in the driver's context gives: the element, nothing, or an
\* exception.
Lookups == {"found", "empty", "raise"}

\* Time that a switch and a lookup may take.
LookupTime == 0..1

\* while time.time() < end (line 213)
SweepBegins(now, end) == now < end

InitFrame ==
    /\ sf_pc = "call"
    /\ sf_now = 0
    /\ sf_end = 0
    /\ sf_n = 0
    /\ sf_k = 0
    /\ sf_ctx \in {0, None}
    /\ sf_sweepAt = 0
    /\ sf_log = <<>>

ParkFrame ==
    /\ sf_pc = "off"
    /\ sf_now = 0
    /\ sf_end = 0
    /\ sf_n = 0
    /\ sf_k = 0
    /\ sf_ctx = 0
    /\ sf_sweepAt = 0
    /\ sf_log = <<>>

\* Line 212: end = time.time() + timeout
FrameEnter ==
    /\ sf_pc = "call"
    /\ \E timeout \in 1..MaxFrameTimeout : sf_end' = sf_now + timeout
    /\ sf_pc' = "while"
    /\ UNCHANGED <<sf_now, sf_n, sf_k, sf_ctx, sf_sweepAt, sf_log, notFrame>>

\* Lines 213 and 230: the loop test; a sweep begins, or the function
\* returns False.
FrameWhile ==
    /\ sf_pc = "while"
    /\ IF SweepBegins(sf_now, sf_end)
          THEN /\ sf_pc' = "top"
               /\ sf_sweepAt' = sf_now
               /\ sf_log' = <<>>
          ELSE /\ sf_pc' = "False"
               /\ UNCHANGED <<sf_sweepAt, sf_log>>
    /\ UNCHANGED <<sf_now, sf_end, sf_n, sf_k, sf_ctx, notFrame>>

\* Lines 214-219: the top-level document.  switch_to.default_content() may
\* raise, and so may find_elements; both are passed over.
FrameTop ==
    /\ sf_pc = "top"
    /\ \E switched \in BOOLEAN, out \in Lookups, d \in LookupTime :
          /\ sf_now' = sf_now + d
          /\ IF ~switched
                THEN /\ sf_ctx' = None
                     /\ sf_log' = Append(sf_log, [doc |-> 0, out |-> "raise"])
                     /\ sf_pc' = "list"
                ELSE /\ sf_ctx' = 0
                     /\ sf_log' = Append(sf_log, [doc |-> 0, out |-> out])
                     /\ sf_pc' = IF out = "found" THEN "True" ELSE "list"
    /\ UNCHANGED <<sf_end, sf_n, sf_k, sf_sweepAt, notFrame>>

\* Line 220: frames = driver.find_elements(By.TAG_NAME, "iframe"), outside
\* the try blocks: an exception of the driver leaves the function.
FrameList ==
    /\ sf_pc = "list"
    /\ \/ \E n \in 0..MaxFrames :
             /\ sf_n' = n
             /\ sf_k' = 1
             /\ sf_pc' = "frame"
       \/ /\ sf_pc' = "raised"
          /\ UNCHANGED <<sf_n, sf_k>>
    /\ UNCHANGED <<sf_now, sf_end, sf_ctx, sf_sweepAt, sf_log, notFrame>>

\* Lines 221-228: one iframe of the list; the switches and the lookup may
\* raise, and the loop continues.
FrameTry ==
    /\ sf_pc = "frame"
    /\ sf_k <= sf_n
    /\ \E switched \in BOOLEAN, out \in Lookups, d \in LookupTime :
          /\ sf_now' = sf_now + d
          /\ IF ~switched
                THEN /\ sf_ctx' \in {0, None}
                     /\ sf_log' = Append(sf_log, [doc |-> sf_k, out |-> "raise"])
                     /\ sf_k' = sf_k + 1
                     /\ UNCHANGED sf_pc
                ELSE /\ sf_ctx' = sf_k
                     /\ sf_log' = Append(sf_log, [doc |-> sf_k, out |-> out])
                     /\ IF out = "found"
                           THEN sf_pc' = "True" /\ UNCHANGED sf_k
                           ELSE sf_k' = sf_k + 1 /\ UNCHANGED sf_pc
    /\ UNCHANGED <<sf_end, sf_n, sf_sweepAt, notFrame>>

\* Line 229: time.sleep(0.3) after the last iframe.
FrameSleep ==
    /\ sf_pc = "frame"
    /\ sf_k > sf_n
    /\ sf_now' = sf_now + 1
    /\ sf_pc' = "while"
    /\ UNCHANGED <<sf_end, sf_n, sf_k, sf_ctx, sf_sweepAt, sf_log, notFrame>>

NextFrame ==
    \/ FrameEnter
    \/ FrameWhile
    \/ FrameTop
    \/ FrameList
    \/ FrameTry
    \/ FrameSleep

(***************************************************************************)
(* Report.validate, lines 117-147, and the report list                     *)
(***************************************************************************)

\* Longest report list.
MaxReports == 2

\* Last calendar day of the model; the process is started on day 0.
MaxDays == 1

\* The default of IMMEDIATE_TRIES.
DEFAULT_IMMEDIATE_TRIES == 3

\* A page-rule field of a Report is None, set to a value Python takes as
\* false (0, []) or set to one it takes as true.
NoRule == [extract_page |-> "None", drop_pages |-> "None", drop_last_pages |-> "None"]

\* The page-rule configurations of the reports of the model: none, each
\* rule alone (drop_last_pages also as 0), and two rules together.
RuleConfigs ==
    { NoRule,
      [NoRule EXCEPT !.extract_page = "true"],
      [NoRule EXCEPT !.drop_pages = "true"],
      [NoRule EXCEPT !.drop_last_pages = "true"],
      [NoRule EXCEPT !.drop_last_pages = "false"],
      [NoRule EXCEPT !.extract_page = "true", !.drop_last_pages = "true"] }

ReportLists == UNION {[1..n -> RuleConfigs] : n \in 0..MaxReports}

\* flags = sum([... is not None, ... is not None, ... is not None])
ValidateFlags(rep) ==
    (IF rep.extract_page # "None" THEN 1 ELSE 0)
    + (IF rep.drop_pages # "None" THEN 1 ELSE 0)
    + (IF rep.drop_last_pages # "None" THEN 1 ELSE 0)

\* if flags > 1: raise ValueError
ValidateRaisesOnThree(rep) == ValidateFlags(rep) > 2
ValidateRaises(rep) == ValidateFlags(rep) > 1

\* The suffix of final_path, lines 609-625: the if/elif chain tests the
\* truth of each field, in the order extract_page, drop_last_pages, drop_pages.
RuleSuffixRaw(rep) == "raw"
RuleSuffix(rep) ==
    IF rep.extract_page = "true" THEN "pg"
    ELSE IF rep.drop_last_pages = "true" THEN "sem_ult"
    ELSE IF rep.drop_pages = "true" THEN "sem_paginas"
    ELSE "raw"

\* rep.name of the report at position i of REPORTS; the name is the identity
\* of a report, so the names of a list are distinct.
ReportNames == <<"A", "B", "C", "D">>
ReportName(i) == ReportNames[i]

\* The names of the files of RUN_DIR, by their parts: stem_date[_suffix].pdf.
\* f"{rep_name}_{DATA_HOJE}.pdf" (line 602)
RawName(rep, date) == [stem |-> rep, date |-> date, suffix |-> ""]

\* f"{rep_name}_{DATA_HOJE}_pg{N}.pdf", ..._sem_ult.pdf, ..._sem_paginas.pdf
\* (lines 610, 615, 620)
DerivedName(rep, date, suffix) == [stem |-> rep, date |-> date, suffix |-> suffix]

\* PDF_FINAL_PATH: f"IndicadoresDiarios_{DATA_HOJE}.pdf" (line 87)
MergedName(date) == [stem |-> "IndicadoresDiarios", date |-> date, suffix |-> ""]

(***************************************************************************)
(* The scheduling loop (lines 719-729), main (673-716), run_all_reports    *)
(* (634-649) and process_single_report (557-632)                           *)
(***************************************************************************)

InitBatch ==
    /\ day = 0
    /\ DATA_HOJE = 0
    /\ sched_last = None
    /\ run_day = None
    /\ FORCE_EXPORT_IMMEDIATE \in BOOLEAN
    /\ IMMEDIATE_TRIES \in (IF FORCE_EXPORT_IMMEDIATE THEN {1, DEFAULT_IMMEDIATE_TRIES}
                                                    ELSE {DEFAULT_IMMEDIATE_TRIES})
    /\ REPORTS \in ReportLists
    /\ m_pc = "sched"
    /\ m_exc = FALSE
    /\ driver = "none"
    /\ merged = <<>>
    /\ sent = <<>>
    /\ r_status = "idle"
    /\ r_i = 0
    /\ ok_paths = <<>>
    /\ falhas = <<>>
    /\ p_pc = "none"
    /\ p_attempt = 0
    /\ p_mode = "immediate"
    /\ p_immediate_ok = FALSE
    /\ p_final = <<>>
    /\ p_ops = {}
    /\ p_navAttempts = 0
    /\ p_immFailed = 0
    /\ p_fallbacks = 0
    /\ p_confirmFailed = {}
    /\ run_ops = {}
    /\ p_reloads = 0
    /\ p_idle = "none"
    /\ p_navTag = ""
    /\ p_subclicked = FALSE
    /\ p_confirmed = FALSE
    /\ p_downloaded = FALSE
    /\ m_recipients = "unread"
    /\ m_quits = <<>>
    /\ run_files = {}

ParkBatch ==
    /\ day = 0
    /\ DATA_HOJE = 0
    /\ sched_last = None
    /\ run_day = None
    /\ FORCE_EXPORT_IMMEDIATE = TRUE
    /\ IMMEDIATE_TRIES = DEFAULT_IMMEDIATE_TRIES
    /\ REPORTS = <<>>
    /\ m_pc = "off"
    /\ m_exc = FALSE
    /\ driver = "none"
    /\ merged = <<>>
    /\ sent = <<>>
    /\ r_status = "idle"
    /\ r_i = 0
    /\ ok_paths = <<>>
    /\ falhas = <<>>
    /\ p_pc = "none"
    /\ p_attempt = 0
    /\ p_mode = "immediate"
    /\ p_immediate_ok = FALSE
    /\ p_final = <<>>
    /\ p_ops = {}
    /\ p_navAttempts = 0
    /\ p_immFailed = 0
    /\ p_fallbacks = 0
    /\ p_confirmFailed = {}
    /\ run_ops = {}
    /\ p_reloads = 0
    /\ p_idle = "none"
    /\ p_navTag = ""
    /\ p_subclicked = FALSE
    /\ p_confirmed = FALSE
    /\ p_downloaded = FALSE
    /\ m_recipients = "unread"
    /\ m_quits = <<>>
    /\ run_files = {}

\* ---- the scheduling loop

\* Midnight passes while the loop waits for the job's time.
DayPasses ==
    /\ m_pc = "sched"
    /\ day < MaxDays
    /\ day' = day + 1
    /\ UNCHANGED <<DATA_HOJE, sched_last, run_day, configVars, mainVars, runVars,
                   reportVars, historyVars, notBatch>>
    /\ UNCHANGED <<protoVars, outVars>>

\* Line 727: schedule.run_pending() finds the daily job due and calls main.
\* RUN_DIR and DATA_HOJE are the module globals of lines 79-87.
SchedRunPending ==
    /\ m_pc = "sched"
    /\ sched_last # day
    /\ sched_last' = day
    /\ run_day' = day
    /\ m_pc' = "setup"
    /\ m_exc' = FALSE
    /\ driver' = "none"
    /\ merged' = <<>>
    /\ sent' = <<>>
    /\ r_status' = "idle"
    /\ r_i' = 0
    /\ ok_paths' = <<>>
    /\ falhas' = <<>>
    /\ p_pc' = "none"
    /\ p_final' = <<>>
    /\ p_ops' = {}
    /\ p_navAttempts' = 0
    /\ p_immFailed' = 0
    /\ p_fallbacks' = 0
    /\ p_confirmFailed' = {}
    /\ run_ops' = {}
    /\ p_attempt' = 0
    /\ p_mode' = "immediate"
    /\ p_immediate_ok' = FALSE
    /\ p_reloads' = 0
    /\ p_idle' = "none"
    /\ p_navTag' = ""
    /\ p_subclicked' = FALSE
    /\ p_confirmed' = FALSE
    /\ p_downloaded' = FALSE
    /\ m_recipients' = "unread"
    /\ m_quits' = <<>>
    /\ run_files' = {}
    /\ UNCHANGED <<day, DATA_HOJE, configVars, notBatch>>

\* ---- main

\* Line 683: driver = setup_edge_driver(RUN_DIR), before the try block; an
\* exception of it ends main and is logged by the scheduling loop.
MainSetup ==
    /\ m_pc = "setup"
    /\ \E outcome \in {"ok", "raise"} :
          IF outcome = "ok"
             THEN /\ driver' = "open"
                  /\ run_ops' = run_ops \cup {"browser"}
                  /\ m_pc' = "run"
                  /\ m_exc' = FALSE
             ELSE /\ m_pc' = "sched"
                  /\ m_exc' = TRUE
                  /\ UNCHANGED <<driver, run_ops>>
    /\ UNCHANGED <<schedVars, configVars, merged, sent, runVars, reportVars,
                   p_ops, p_navAttempts, p_immFailed, p_fallbacks, p_confirmFailed,
                   notBatch>>
    /\ UNCHANGED <<protoVars, outVars>>

\* Lines 686, 639-641: main calls run_all_reports(driver, REPORTS).
RunAllEnter ==
    /\ m_pc = "run"
    /\ r_status = "idle"
    /\ r_status' = "running"
    /\ r_i' = 1
    /\ ok_paths' = <<>>
    /\ falhas' = <<>>
    /\ p_pc' = "next"
    /\ UNCHANGED <<schedVars, configVars, mainVars, p_attempt, p_mode, p_immediate_ok,
                   p_final, historyVars, notBatch>>
    /\ UNCHANGED <<protoVars, outVars>>

InReport(pc) == m_pc = "run" /\ r_status = "running" /\ p_pc = pc

\* Lines 642-643 and 649: the for loop takes the next report and calls
\* process_single_report (a new frame: its locals and the history of the
\* report start afresh), or the list is exhausted and run_all_reports returns.
RunAllNext ==
    /\ InReport("next")
    /\ IF r_i <= Len(REPORTS)
          THEN /\ p_pc' = "start"
               /\ UNCHANGED <<r_status, m_pc>>
          ELSE /\ p_pc' = "none"
               /\ r_status' = "returned"
               /\ m_pc' = "check"
    /\ p_final' = <<>>
    /\ p_ops' = {}
    /\ p_navAttempts' = 0
    /\ p_immFailed' = 0
    /\ p_fallbacks' = 0
    /\ p_confirmFailed' = {}
    /\ p_attempt' = 0
    /\ p_mode' = "immediate"
    /\ p_immediate_ok' = FALSE
    /\ p_reloads' = 0
    /\ p_idle' = "none"
    /\ p_navTag' = ""
    /\ p_subclicked' = FALSE
    /\ p_confirmed' = FALSE
    /\ p_downloaded' = FALSE
    /\ UNCHANGED <<schedVars, configVars, m_exc, driver, merged, sent, r_i, ok_paths,
                   falhas, run_ops, outVars, notBatch>>

\* Line 567: rep.validate(), before the try block of process_single_report:
\* its ValueError leaves process_single_report and run_all_reports and
\* reaches main's finally clause.
ProcessValidate ==
    /\ InReport("start")
    /\ IF ValidateRaises(REPORTS[r_i])
          THEN /\ p_pc' = "none"
               /\ r_status' = "raised"
               /\ m_pc' = "finally"
               /\ m_exc' = TRUE
          ELSE /\ p_pc' = "snapshot"
               /\ UNCHANGED <<r_status, m_pc, m_exc>>
    /\ UNCHANGED <<schedVars, configVars, driver, merged, sent, r_i, ok_paths, falhas,
                   p_attempt, p_mode, p_immediate_ok, p_final, historyVars, notBatch>>
    /\ UNCHANGED <<protoVars, outVars>>

\* Line 572: existing = set(os.listdir(RUN_DIR)).
ProcessSnapshot ==
    /\ InReport("snapshot")
    /\ p_pc' = "load"
    /\ p_ops' = p_ops \cup {"snapshot"}
    /\ run_ops' = run_ops \cup {"files"}
    /\ UNCHANGED <<schedVars, configVars, mainVars, runVars, p_attempt, p_mode,
                   p_immediate_ok, p_final, p_navAttempts, p_immFailed, p_fallbacks,
                   p_confirmFailed, notBatch>>
    /\ UNCHANGED <<protoVars, outVars>>

\* Lines 575-577: driver.get, wait for readyState, pbix_ready; an exception
\* goes to the except clause of line 630.
ProcessLoad ==
    /\ InReport("load")
    /\ \E outcome \in {"ok", "raise"} :
          p_pc' = IF outcome = "ok" THEN "export" ELSE "fail"
    /\ p_ops' = p_ops \cup {"load"}
    /\ run_ops' = run_ops \cup {"page"}
    /\ UNCHANGED <<schedVars, configVars, mainVars, runVars, p_attempt, p_mode,
                   p_immediate_ok, p_final, p_navAttempts, p_immFailed, p_fallbacks,
                   p_confirmFailed, notBatch>>
    /\ UNCHANGED <<protoVars, outVars>>

\* Lines 580-582 and 594: immediate_ok = False; enter the loop of immediate
\* attempts if the mode is on and range(1, IMMEDIATE_TRIES + 1) is not
\* empty, otherwise go to the fallback.
ProcessExportBegin ==
    /\ InReport("export")
    /\ p_immediate_ok' = FALSE
    /\ IF FORCE_EXPORT_IMMEDIATE /\ IMMEDIATE_TRIES >= 1
          THEN /\ p_attempt' = 1
               /\ p_mode' = "immediate"
               /\ p_pc' = "nav"
               /\ p_navAttempts' = p_navAttempts + 1
          ELSE /\ p_pc' = "fallback"
               /\ UNCHANGED <<p_attempt, p_mode, p_navAttempts>>
    /\ p_ops' = p_ops \cup {"export"}
    /\ UNCHANGED <<schedVars, configVars, mainVars, runVars, p_final,
                   p_immFailed, p_fallbacks, p_confirmFailed, run_ops, notBatch>>
    /\ UNCHANGED <<protoVars, outVars>>

\* Where an exception raised inside export_to_pdf_immediate is handled: in
\* the immediate loop by the except clause of lines 588-591, in the
\* fallback by the except clause of lines 630-632.
AfterExportErrorSwallowed(mode) == IF mode = "immediate" THEN "refresh" ELSE "download"
AfterExportError(mode) == IF mode = "immediate" THEN "refresh" ELSE "fail"

\* if path_used == "direct" (line 398): the extra click on the format, or
\* straight to confirm_pdf_export.
AfterNavigateNoSubclick(tag) == "confirm"
AfterNavigate(tag) == IF tag = "direct" THEN "subclick" ELSE "confirm"

\* Lines 395-397: cooldown, then open_export_menu_unified returns the tag of
\* the path that worked or raises RuntimeError.
ExportNavigate ==
    /\ InReport("nav")
    /\ \E outcome \in {"direct", "overflow", "filemenu", "raise"} :
          /\ p_pc' = IF outcome = "raise" THEN AfterExportError(p_mode)
                     ELSE AfterNavigate(outcome)
          /\ p_navTag' = IF outcome = "raise" THEN "" ELSE outcome
          /\ p_immFailed' = IF outcome = "raise" /\ p_mode = "immediate"
                               THEN p_immFailed + 1 ELSE p_immFailed
    /\ p_subclicked' = FALSE
    /\ p_ops' = p_ops \cup {"click"}
    /\ run_ops' = run_ops \cup {"page"}
    /\ UNCHANGED <<schedVars, configVars, mainVars, runVars, p_attempt, p_mode,
                   p_immediate_ok, p_final, p_navAttempts, p_fallbacks,
                   p_confirmFailed, notBatch>>
    /\ UNCHANGED <<p_reloads, p_idle, p_confirmed, p_downloaded, outVars>>

\* Lines 398-403: after the direct button, the click on the PDF format.
ExportSubclick ==
    /\ InReport("subclick")
    /\ \E outcome \in {"ok", "raise"} :
          /\ p_pc' = IF outcome = "raise" THEN AfterExportError(p_mode) ELSE "confirm"
          /\ p_navTag' = IF outcome = "raise" THEN "" ELSE p_navTag
          /\ p_subclicked' = (outcome = "ok")
          /\ p_immFailed' = IF outcome = "raise" /\ p_mode = "immediate"
                               THEN p_immFailed + 1 ELSE p_immFailed
    /\ p_ops' = p_ops \cup {"click"}
    /\ run_ops' = run_ops \cup {"page"}
    /\ UNCHANGED <<schedVars, configVars, mainVars, runVars, p_attempt, p_mode,
                   p_immediate_ok, p_final, p_navAttempts, p_fallbacks,
                   p_confirmFailed, notBatch>>
    /\ UNCHANGED <<p_reloads, p_idle, p_confirmed, p_downloaded, outVars>>

\* Lines 404 and 359-389: confirm_pdf_export returns True or raises
\* RuntimeError; lines 586-587: a success in the immediate loop sets
\* immediate_ok and leaves the loop.
ExportConfirm ==
    /\ InReport("confirm")
    /\ \E outcome \in {"ok", "raise"} :
          IF outcome = "ok"
             THEN /\ p_pc' = "download"
                  /\ p_immediate_ok' = (p_mode = "immediate")
                  /\ p_confirmed' = TRUE
                  /\ UNCHANGED <<p_immFailed, p_confirmFailed>>
             ELSE /\ p_pc' = AfterExportError(p_mode)
                  /\ p_confirmFailed' = p_confirmFailed \cup {p_mode}
                  /\ p_immFailed' = IF p_mode = "immediate"
                                       THEN p_immFailed + 1 ELSE p_immFailed
                  /\ UNCHANGED <<p_immediate_ok, p_confirmed>>
    /\ p_navTag' = ""
    /\ p_subclicked' = FALSE
    /\ p_ops' = p_ops \cup {"click"}
    /\ run_ops' = run_ops \cup {"page"}
    /\ UNCHANGED <<schedVars, configVars, mainVars, runVars, p_attempt, p_mode,
                   p_final, p_navAttempts, p_fallbacks, notBatch>>
    /\ UNCHANGED <<p_reloads, p_idle, p_downloaded, outVars>>

\* for attempt in range(1, IMMEDIATE_TRIES + 1): another value follows attempt.
RangeHasNextInclusive(attempt, tries) == attempt <= tries
RangeHasNext(attempt, tries) == attempt < tries

\* Lines 590-591 and 582: driver.refresh() and the cooldown, inside the
\* except clause, then the next attempt or the end of the loop.  An
\* exception of driver.refresh() goes to the except clause of line 630.
ProcessRefresh ==
    /\ InReport("refresh")
    /\ \E outcome \in {"ok", "raise"} :
          IF outcome = "raise"
             THEN /\ p_pc' = "fail"
                  /\ UNCHANGED <<p_attempt, p_navAttempts, p_reloads>>
             ELSE /\ p_reloads' = p_reloads + 1
                  /\ IF RangeHasNext(p_attempt, IMMEDIATE_TRIES)
                        THEN /\ p_attempt' = p_attempt + 1
                             /\ p_pc' = "nav"
                             /\ p_navAttempts' = p_navAttempts + 1
                        ELSE /\ p_pc' = "fallback"
                             /\ UNCHANGED <<p_attempt, p_navAttempts>>
    /\ p_ops' = p_ops \cup {"refresh"}
    /\ run_ops' = run_ops \cup {"page"}
    /\ UNCHANGED <<schedVars, configVars, mainVars, runVars, p_mode, p_immediate_ok,
                   p_final, p_immFailed, p_fallbacks, p_confirmFailed, notBatch>>
    /\ UNCHANGED <<p_idle, p_navTag, p_subclicked, p_confirmed, p_downloaded, outVars>>

\* Lines 412-413: export_to_pdf_immediate is called when wait_report_idle
\* has returned; its TimeoutError leaves export_to_pdf_with_idle.
AfterIdleUngated(outcome) == "nav"
AfterIdle(outcome) == IF outcome = "ok" THEN "nav" ELSE "fail"

\* Lines 594-596 and 411-413: the fallback looks for a button in the frames
\* (an exception of the lookup is outcome "raise"), waits for
\* wait_report_idle and then calls export_to_pdf_immediate; TimeoutError
\* goes to the except clause of line 630.
ProcessFallbackIdle ==
    /\ InReport("fallback")
    /\ \E outcome \in {"ok", "timeout", "raise"} :
          /\ p_idle' = IF outcome = "raise" THEN p_idle ELSE outcome
          /\ p_pc' = AfterIdle(outcome)
          /\ IF AfterIdle(outcome) = "nav"
                THEN /\ p_mode' = "fallback"
                     /\ p_navAttempts' = p_navAttempts + 1
                ELSE UNCHANGED <<p_mode, p_navAttempts>>
    /\ p_fallbacks' = p_fallbacks + 1
    /\ p_ops' = p_ops \cup {"idle_wait"}
    /\ run_ops' = run_ops \cup {"page"}
    /\ UNCHANGED <<schedVars, configVars, mainVars, runVars, p_attempt,
                   p_immediate_ok, p_final, p_immFailed, p_confirmFailed, notBatch>>
    /\ UNCHANGED <<p_reloads, p_navTag, p_subclicked, p_confirmed, p_downloaded, outVars>>

\* Line 599: wait_for_pdf_download returns a path or raises TimeoutError.
ProcessDownload ==
    /\ InReport("download")
    /\ \E outcome \in {"ok", "timeout"} :
          /\ p_pc' = IF outcome = "ok" THEN "move" ELSE "fail"
          /\ p_downloaded' = (outcome = "ok")
    /\ p_ops' = p_ops \cup {"download_wait"}
    /\ run_ops' = run_ops \cup {"files"}
    /\ UNCHANGED <<schedVars, configVars, mainVars, runVars, p_attempt, p_mode,
                   p_immediate_ok, p_final, p_navAttempts, p_immFailed, p_fallbacks,
                   p_confirmFailed, notBatch>>
    /\ UNCHANGED <<p_reloads, p_idle, p_navTag, p_subclicked, p_confirmed, outVars>>

\* Lines 602-605: the download is moved to {rep_name}_{DATA_HOJE}.pdf.
ProcessMove ==
    /\ InReport("move")
    /\ \E outcome \in {"ok", "raise"} :
          IF outcome = "ok"
             THEN /\ p_pc' = "rule"
                  /\ run_files' = run_files \cup {RawName(ReportName(r_i), DATA_HOJE)}
             ELSE /\ p_pc' = "fail"
                  /\ UNCHANGED run_files
    /\ p_ops' = p_ops \cup {"move"}
    /\ run_ops' = run_ops \cup {"files"}
    /\ UNCHANGED <<schedVars, configVars, mainVars, runVars, p_attempt, p_mode,
                   p_immediate_ok, p_final, p_navAttempts, p_immFailed, p_fallbacks,
                   p_confirmFailed, notBatch>>
    /\ UNCHANGED <<protoVars, m_recipients, m_quits>>

\* Lines 609-628: the page rule; the PDF helpers may raise (a page that the
\* download does not have), the plain copy of line 625 cannot.
ProcessRule ==
    /\ InReport("rule")
    /\ LET suffix == RuleSuffix(REPORTS[r_i])
       IN \E outcome \in (IF suffix = "raw" THEN {"ok"} ELSE {"ok", "raise"}) :
             IF outcome = "ok"
                THEN /\ p_pc' = "ret"
                     /\ p_final' = <<[rep |-> r_i, date |-> DATA_HOJE, suffix |-> suffix]>>
                     /\ run_files' = IF suffix = "raw" THEN run_files
                                     ELSE run_files \cup {DerivedName(ReportName(r_i), DATA_HOJE, suffix)}
                ELSE /\ p_pc' = "fail"
                     /\ UNCHANGED <<p_final, run_files>>
    /\ UNCHANGED <<schedVars, configVars, mainVars, runVars, p_attempt, p_mode,
                   p_immediate_ok, historyVars, notBatch>>
    /\ UNCHANGED <<protoVars, m_recipients, m_quits>>

\* ok_paths.append(out) (line 645)
RecordPathFirst(paths, out) == <<out>> \o paths
RecordPath(paths, out) == Append(paths, out)

\* Lines 628 and 644-648: process_single_report returns final_path and
\* run_all_reports appends it to ok_paths.
ProcessReturnPath ==
    /\ InReport("ret")
    /\ ok_paths' = RecordPath(ok_paths, p_final[1])
    /\ r_i' = r_i + 1
    /\ p_pc' = "next"
    /\ UNCHANGED <<schedVars, configVars, mainVars, r_status, falhas, p_attempt, p_mode,
                   p_immediate_ok, p_final, historyVars, notBatch>>
    /\ UNCHANGED <<protoVars, outVars>>

\* Lines 630-632 and 644-648: the except clause logs and returns None, and
\* run_all_reports appends the report's name to falhas.
ProcessReturnNone ==
    /\ InReport("fail")
    /\ falhas' = Append(falhas, r_i)
    /\ r_i' = r_i + 1
    /\ p_pc' = "next"
    /\ UNCHANGED <<schedVars, configVars, mainVars, r_status, ok_paths, p_attempt, p_mode,
                   p_immediate_ok, p_final, historyVars, notBatch>>
    /\ UNCHANGED <<protoVars, outVars>>

\* if not ok_paths (line 688)
NothingDownloadedNever(paths) == FALSE
NothingDownloaded(paths) == paths = <<>>

\* failed_html of build_email_html (lines 659-661): the names of failed_names,
\* one list item each.
FailedSectionEmpty(failed_names) == <<>>
FailedSection(failed_names) == [i \in 1..Len(failed_names) |-> failed_names[i]]

\* Lines 688-690: no PDF, no merge and no mail.
MainCheck ==
    /\ m_pc = "check"
    /\ m_pc' = IF NothingDownloaded(ok_paths) THEN "finally" ELSE "merge"
    /\ UNCHANGED <<schedVars, configVars, m_exc, driver, merged, sent, runVars,
                   reportVars, historyVars, notBatch>>
    /\ UNCHANGED <<protoVars, outVars>>

\* Line 693: merge_pdfs(ok_paths, PDF_FINAL_PATH).
MainMerge ==
    /\ m_pc = "merge"
    /\ \E outcome \in {"ok", "raise"} :
          IF outcome = "ok"
             THEN /\ merged' = <<[paths |-> ok_paths, date |-> DATA_HOJE]>>
                  /\ run_files' = run_files \cup {MergedName(DATA_HOJE)}
                  /\ m_pc' = "recipients"
                  /\ UNCHANGED m_exc
             ELSE /\ m_pc' = "finally"
                  /\ m_exc' = TRUE
                  /\ UNCHANGED <<merged, run_files>>
    /\ run_ops' = run_ops \cup {"merge"}
    /\ UNCHANGED <<schedVars, configVars, driver, sent, runVars, reportVars,
                   p_ops, p_navAttempts, p_immFailed, p_fallbacks, p_confirmFailed,
                   notBatch>>
    /\ UNCHANGED <<protoVars, m_recipients, m_quits>>

\* Lines 696-699: read_recipients; none found, no mail.
MainRecipients ==
    /\ m_pc = "recipients"
    /\ \E outcome \in {"some", "empty", "raise"} :
          /\ m_pc' = IF outcome = "some" THEN "send" ELSE "finally"
          /\ m_exc' = (outcome = "raise")
          /\ m_recipients' = IF outcome = "raise" THEN m_recipients ELSE outcome
    /\ run_ops' = run_ops \cup {"recipients"}
    /\ UNCHANGED <<schedVars, configVars, driver, merged, sent, runVars, reportVars,
                   p_ops, p_navAttempts, p_immFailed, p_fallbacks, p_confirmFailed,
                   notBatch>>
    /\ UNCHANGED <<protoVars, run_files, m_quits>>

\* Lines 702-709: the body, the subject and send_email_outlook_html.
MainSend ==
    /\ m_pc = "send"
    /\ \E outcome \in {"ok", "raise"} :
          IF outcome = "ok"
             THEN /\ sent' = <<[date |-> DATA_HOJE, failed |-> FailedSection(falhas),
                                attach |-> MergedName(DATA_HOJE)]>>
                  /\ UNCHANGED m_exc
             ELSE /\ m_exc' = TRUE
                  /\ UNCHANGED sent
    /\ m_pc' = "finally"
    /\ run_ops' = run_ops \cup {"send"}
    /\ UNCHANGED <<schedVars, configVars, driver, merged, runVars, reportVars,
                   p_ops, p_navAttempts, p_immFailed, p_fallbacks, p_confirmFailed,
                   notBatch>>
    /\ UNCHANGED <<protoVars, outVars>>

\* Lines 712-715: what leaves the finally clause after driver.quit() ended
\* with outcome: the exception that was propagating when it was entered,
\* if any; quit's own exception is caught and dropped.
AfterQuitPropagating(exc, outcome) == exc \/ outcome = "raise"
AfterQuit(exc, outcome) == exc

\* Lines 710-716: driver.quit() in the finally clause, its own exception
\* dropped; main ends and the scheduling loop goes on (lines 725-729).
MainFinally ==
    /\ m_pc = "finally"
    /\ \E outcome \in {"ok", "raise"} :
          /\ m_quits' = Append(m_quits, outcome)
          /\ m_exc' = AfterQuit(m_exc, outcome)
    /\ driver' = "quit"
    /\ m_pc' = "sched"
    /\ UNCHANGED <<schedVars, configVars, merged, sent, runVars, reportVars,
                   historyVars, notBatch>>
    /\ UNCHANGED <<protoVars, m_recipients, run_files>>

Next ==
    \/ DayPasses
    \/ SchedRunPending
    \/ MainSetup
    \/ RunAllEnter
    \/ RunAllNext
    \/ ProcessValidate
    \/ ProcessSnapshot
    \/ ProcessLoad
    \/ ProcessExportBegin
    \/ ExportNavigate
    \/ ExportSubclick
    \/ ExportConfirm
    \/ ProcessRefresh
    \/ ProcessFallbackIdle
    \/ ProcessDownload
    \/ ProcessMove
    \/ ProcessRule
    \/ ProcessReturnPath
    \/ ProcessReturnNone
    \/ MainCheck
    \/ MainMerge
    \/ MainRecipients
    \/ MainSend
    \/ MainFinally

(***************************************************************************)
(* The body of the notification: main, lines 702-703, and build_email_html,*)
(* lines 651-671.  Names and paths are strings of characters.              *)
(***************************************************************************)

\* Longest report list in SpecMail.
MaxMailReports == 2

\* The report names in use: two plain ones, and one that is another name
\* followed by "_" and more.
MailNames == {<<"A">>, <<"B">>, <<"A", "_", "B">>}

\* DATA_HOJE as it stands in a file name (it has no "_").
DateChars == <<"d">>

\* What follows the date in a final path: nothing (the raw download) or the
\* suffix of a page rule.
PathSuffixes == {<<>>, <<"_", "s">>}

\* os.path.basename of a report's final path (lines 602, 610, 615, 620).
Basename(name, suffix) == name \o <<"_">> \o DateChars \o suffix \o <<".", "p", "d", "f">>

\* str.startswith
StartsWith(s, prefix) == Len(prefix) <= Len(s) /\ SubSeq(s, 1, Len(prefix)) = prefix

\* Line 702: ok_reports = [r for r in REPORTS if any(
\*     os.path.basename(p).startswith(r.name + "_") for p in ok_paths)]
OkReports(reports, paths) ==
    SelectSeq([i \in 1..Len(reports) |-> i],
              LAMBDA i : \E j \in 1..Len(paths) :
                            StartsWith(paths[j], reports[i] \o <<"_">>))

\* The report lists: distinct names.
MailReportLists ==
    {l \in UNION {[1..n -> MailNames] : n \in 1..MaxMailReports} :
        \A i, j \in 1..Len(l) : i # j => l[i] # l[j]}

\* Lines 642-649: what run_all_reports returns for the results of the
\* reports: the paths in list order, and the names of the others.
OkPathsOf(result) == SelectSeq(result, LAMBDA p : p # <<>>)
FalhasOf(reports, result) ==
    LET failed == SelectSeq([i \in 1..Len(reports) |-> i], LAMBDA i : result[i] = <<>>)
    IN [k \in 1..Len(failed) |-> reports[failed[k]]]

\* main has passed lines 688-699: some report succeeded.
InitMail ==
    /\ ml_pc = "call"
    /\ ml_reports \in MailReportLists
    /\ ml_result \in
          {r \in [1..Len(ml_reports) ->
                    {<<>>} \cup {Basename(n, x) : n \in MailNames, x \in PathSuffixes}] :
              /\ \A i \in 1..Len(ml_reports) :
                    r[i] = <<>> \/ \E x \in PathSuffixes : r[i] = Basename(ml_reports[i], x)
              /\ \E i \in 1..Len(ml_reports) : r[i] # <<>>}
    /\ ml_ok_paths = OkPathsOf(ml_result)
    /\ ml_falhas = FalhasOf(ml_reports, ml_result)
    /\ ml_ok_reports = <<>>
    /\ ml_body = [processed |-> <<>>, failures |-> <<>>]

ParkMail ==
    /\ ml_pc = "off"
    /\ ml_reports = <<>>
    /\ ml_result = <<>>
    /\ ml_ok_paths = <<>>
    /\ ml_falhas = <<>>
    /\ ml_ok_reports = <<>>
    /\ ml_body = [processed |-> <<>>, failures |-> <<>>]

\* Line 702.
MailOkReports ==
    /\ ml_pc = "call"
    /\ ml_ok_reports' = OkReports(ml_reports, ml_ok_paths)
    /\ ml_pc' = "built"
    /\ UNCHANGED <<ml_reports, ml_result, ml_ok_paths, ml_falhas, ml_body, notMail>>

\* Lines 703 and 657-661: one item per report of ok_reports under
\* "Relatórios processados", one per name of falhas under "Falhas".
MailBuild ==
    /\ ml_pc = "built"
    /\ ml_body' = [processed |-> [k \in 1..Len(ml_ok_reports) |-> ml_reports[ml_ok_reports[k]]],
                   failures |-> ml_falhas]
    /\ ml_pc' = "done"
    /\ UNCHANGED <<ml_reports, ml_result, ml_ok_paths, ml_falhas, ml_ok_reports, notMail>>

NextMail ==
    \/ MailOkReports
    \/ MailBuild

(***************************************************************************)
(* Specifications                                                          *)
(***************************************************************************)

\* wait_report_idle alone; no download is watched.
InitIdleOnly == InitIdle /\ ParkDownload /\ ParkNav /\ ParkFrame /\ ParkBatch /\ ParkMail

SpecIdle == InitIdleOnly /\ [][NextIdle]_vars

\* wait_for_pdf_download alone.
InitDownloadOnly == InitDownload /\ ParkIdle /\ ParkNav /\ ParkFrame /\ ParkBatch /\ ParkMail

SpecDownload == InitDownloadOnly /\ [][NextDownload]_vars

\* wait_for_pdf_download with the watcher's thread never stopped for good: the
\* call runs in the only thread of the script, and time.sleep returns.
WatchStep == WatchEnter \/ WatchPoll \/ WatchRecheck \/ WatchRaise

\* The fair specification starts from the calls with the short timeout.
InitDownloadShort == InitDownloadOnly /\ dl_timeout = Ticks(2)

SpecDownloadFair == InitDownloadShort /\ [][NextDownload]_vars /\ WF_vars(WatchStep)

\* open_export_menu_unified, called alone.
InitNavOnly == InitNav /\ ParkIdle /\ ParkDownload /\ ParkFrame /\ ParkBatch /\ ParkMail

SpecNav == InitNavOnly /\ [][NextNav]_vars

\* switch_to_frame_with alone.
InitFrameOnly == InitFrame /\ ParkIdle /\ ParkDownload /\ ParkNav /\ ParkBatch /\ ParkMail

SpecFrame == InitFrameOnly /\ [][NextFrame]_vars

\* The notification body alone.
InitMailOnly == InitMail /\ ParkIdle /\ ParkDownload /\ ParkNav /\ ParkFrame /\ ParkBatch

SpecMail == InitMailOnly /\ [][NextMail]_vars

\* The scheduling loop with main; the two waits are taken by their outcome.
Init == InitBatch /\ ParkIdle /\ ParkDownload /\ ParkNav /\ ParkFrame /\ ParkMail

Spec == Init /\ [][Next]_vars

\* The steps of run_all_reports and of the process_single_report it calls.
RunStep ==
    \/ RunAllNext
    \/ ProcessValidate
    \/ ProcessSnapshot
    \/ ProcessLoad
    \/ ProcessExportBegin
    \/ ExportNavigate
    \/ ExportSubclick
    \/ ExportConfirm
    \/ ProcessRefresh
    \/ ProcessFallbackIdle
    \/ ProcessDownload
    \/ ProcessMove
    \/ ProcessRule
    \/ ProcessReturnPath
    \/ ProcessReturnNone

\* The batch with time advancing and every call of the driver, of a wait and
\* of the file system returning or raising: the thread of run_all_reports is
\* never stopped for good.
SpecFair == Init /\ [][Next]_vars /\ WF_vars(RunStep)

(***************************************************************************)
(* Properties of wait_report_idle (checked under SpecIdle).  The call is   *)
(* made at time 0, so wi_now is also the time elapsed since the call.      *)
(***************************************************************************)

PollTime(i) == wi_polls[i][1]
PollBusy(i) == wi_polls[i][2]
NPolls == Len(wi_polls)

AllPollsBusy == \A i \in 1..NPolls : PollBusy(i)

\* Some poll saw the signal busy after an earlier poll had seen it idle.
Flickered == \E i \in 1..(NPolls - 1) : ~PollBusy(i) /\ PollBusy(i + 1)

\* The observed signal is the one that is busy before T and idle from T on.
ToggledAt(T) == \A i \in 1..NPolls : PollBusy(i) <=> PollTime(i) < T

\* Toggle times worth considering once the call has ended: a signal that
\* flickered has none, and times after the timeout agree with every poll.
ToggleTimes ==
    IF wi_pc \in {"ok", "timeout"} /\ ~Flickered
        THEN 0..(wi_timeout + IDLE_POLL_TICKS)
        ELSE {}

\* required_stable_duration rounded up to a whole number of poll intervals.
CeilToPoll(d) == ((d + IDLE_POLL_TICKS - 1) \div IDLE_POLL_TICKS) * IDLE_POLL_TICKS

\* C7 as stated: for a signal that toggles busy->idle at T and never again,
\* with T + required_stable_duration + one poll interval inside the timeout,
\* wait_report_idle returns success, no earlier than T + required_stable_duration
\* and no later than T + required_stable_duration + one poll interval.
C7_SuccessWithinOnePoll ==
    \A T \in ToggleTimes :
        (NPolls > 0 /\ ToggledAt(T) /\ T + wi_stable + IDLE_POLL_TICKS <= wi_timeout)
        => /\ wi_pc # "timeout"
           /\ wi_pc = "ok" => /\ wi_now >= T + wi_stable
                              /\ wi_now <= T + wi_stable + IDLE_POLL_TICKS

\* C7 amended: the stability window is measured from the first idle poll and
\* is tested at polls only, so the success comes no earlier than
\* T + required_stable_duration and earlier than T + one poll interval +
\* required_stable_duration rounded up to a whole number of poll intervals;
\* it does come when that bound is inside the timeout.
C7_SuccessWithinRoundedWindow ==
    \A T \in ToggleTimes :
        (NPolls > 0 /\ ToggledAt(T))
        => /\ wi_pc = "ok" => /\ wi_now >= T + wi_stable
                              /\ wi_now < T + IDLE_POLL_TICKS + CeilToPoll(wi_stable)
           /\ wi_pc = "timeout" => T + IDLE_POLL_TICKS + CeilToPoll(wi_stable) > wi_timeout

\* C7 witness: a success for the default stability window after a signal
\* that was busy at the call and toggled to idle between two polls.
C7_Witness ==
    /\ wi_pc = "ok"
    /\ wi_stable = Ticks(IDLE_STABLE_SECONDS)
    /\ NPolls > 1 /\ PollBusy(1)
    /\ ~Flickered

\* C8: if every poll of the timeout window sees the signal busy,
\* wait_report_idle never returns success, and TimeoutError is raised only
\* once at least `timeout` has elapsed since the call.
C8_TimeoutNotBeforeDeadline ==
    /\ wi_pc = "ok" => ~AllPollsBusy
    /\ wi_pc = "timeout" => wi_now >= wi_timeout

\* C8 witness: TimeoutError after a window of busy polls only.
C8_Witness == wi_pc = "timeout" /\ NPolls > 0 /\ AllPollsBusy

\* C9: success is returned only at the end of a run of idle polls that
\* spans at least required_stable_duration, and a poll that sees the signal
\* busy leaves the stability timer unset.
C9_Debounce ==
    /\ wi_pc = "ok" =>
          \E i \in 1..NPolls :
              /\ \A j \in i..NPolls : ~PollBusy(j)
              /\ PollTime(NPolls) = wi_now
              /\ wi_now - PollTime(i) >= wi_stable
    /\ (NPolls > 0 /\ PollBusy(NPolls)) => wi_stable_start = None

\* C9 witness: a success after a flicker busy -> idle -> busy -> idle.
C9_Witness ==
    /\ wi_pc = "ok"
    /\ \E i, j, k \in 1..NPolls : i < j /\ j < k /\ PollBusy(i) /\ ~PollBusy(j) /\ PollBusy(k)

(***************************************************************************)
(* Properties of wait_for_pdf_download (checked under SpecDownload)        *)
(***************************************************************************)

\* A final-named entry that is not in the snapshot.
FinalNew(f) ==
    /\ dl_dir[f] # Absent
    /\ dl_dir[f].ext \in {"pdf", "PDF"}
    /\ <<f, dl_dir[f].ext>> \notin dl_existing

\* C10 as stated: wait_for_pdf_download never returns while a partial-named
\* entry exists among the entries that are new relative to the snapshot.
C10_NoReturnWhilePartialExists == dl_pc = "ok" => ~PartialListed

\* C10 amended: wait_for_pdf_download returns only from a poll whose listing
\* held no new partial-named entry, and what it returns is a new final-named
\* file; a poll that lists a new final-named file and no new partial-named
\* entry takes that file as its candidate.
C10_ReturnsOnlyFromListingWithoutPartial ==
    /\ [](dl_pc \in {"recheck", "ok"} =>
            /\ dl_listedTemp # "now"
            /\ dl_latest \in Downloads
            /\ FinalNew(dl_latest))
    /\ [][(dl_pc = "loop" /\ dl_now' # dl_now
              /\ ~PartialListed /\ \E f \in Downloads : FinalNew(f))
          => (dl_pc' = "recheck" /\ dl_s1' = dl_dir[dl_latest'].size)]_vars

\* C10 witness: the own download was listed under a partial name, was
\* renamed, and the watcher returned the final file.
C10_Witness ==
    /\ dl_pc = "ok"
    /\ dl_listedTemp = "before"
    /\ dl_latest = "own"
    /\ dl_dir["late"] = Absent
    /\ ~dl_dir["own"].open

\* C11: wait_for_pdf_download never reports a false completion.  A second
\* size read that differs from the first, or is zero, is never followed by
\* a return; the file of a return had two equal nonzero size reads;
\* TimeoutError is raised only once the deadline has passed; and the call
\* ends, so a file whose size is never stable ends it with TimeoutError.
C11_NoFalseCompletion ==
    /\ [][(dl_pc = "recheck" /\ ~(dl_s1 = dl_dir[dl_latest].size /\ dl_s1 > 0))
             => dl_pc' # "ok"]_vars
    /\ [](dl_pc = "ok" =>
            /\ dl_latest \in Downloads
            /\ FinalNew(dl_latest)
            /\ dl_dir[dl_latest].size = dl_s1
            /\ dl_s1 > 0)
    /\ [](dl_pc = "timeout" => dl_now >= dl_deadline)
    /\ <>(dl_pc \in {"ok", "timeout"})

\* C11 witness: TimeoutError after a new final-named file was taken as the
\* candidate and its size was still zero or changing at the second read.
C11_Witness ==
    /\ dl_pc = "timeout"
    /\ dl_latest \in Downloads
    /\ FinalNew(dl_latest)
    /\ dl_s1 # dl_dir[dl_latest].size \/ dl_s1 = 0

\* C24: artifacts are attributed to the report that produced them.  The
\* file that wait_for_pdf_download returns to a report is the download of
\* that report's own export, never the download of an earlier report's
\* export that finished late.
C24_ReturnsOwnDownload == dl_pc = "ok" => dl_latest = "own"

(***************************************************************************)
(* Properties of open_export_menu_unified (checked under SpecNav)          *)
(***************************************************************************)

\* The strategies whose failure was logged, in order.
FailedStrategies == [i \in 1..Len(nv_log) |-> nv_log[i].strategy]

\* Sequence p is an initial part of <<1, 2, 3>>.
InFixedOrder(p) == Len(p) <= 3 /\ \A i \in 1..Len(p) : p[i] = i

\* C12: open_export_menu_unified tries direct, overflow, file menu in that
\* order, a strategy being started only when every earlier one has raised
\* and been logged, and it returns the tag of the first strategy that
\* succeeds: the last one started, all the earlier ones logged as failed.
C12_FirstSuccessfulStrategyInOrder ==
    /\ InFixedOrder(nv_started)
    /\ InFixedOrder(FailedStrategies)
    /\ nv_pc = "try" => Len(FailedStrategies) = Len(nv_started) - 1
    /\ nv_pc = "ret" =>
          /\ nv_started # <<>>
          /\ Len(FailedStrategies) = Len(nv_started) - 1
          /\ nv_tag = <<"direct", "overflow", "filemenu">>[Len(nv_started)]

\* C12 witness: strategies 1 and 2 raised and were logged, strategy 3
\* succeeded and its tag is returned.
C12_Witness ==
    /\ nv_pc = "ret"
    /\ nv_tag = "filemenu"
    /\ FailedStrategies = <<1, 2>>

\* C13: RuntimeError ("no viable path") is raised exactly when the three
\* strategies have been started and each has raised; and no exception of a
\* click inside a strategy leaves the function otherwise: the only other
\* exception is that of pbix_ready, before any strategy is started.
C13_NoViablePathIffAllRaised ==
    /\ nv_pc = "noviable" <=> FailedStrategies = <<1, 2, 3>>
    /\ nv_pc = "noviable" => nv_started = <<1, 2, 3>>
    /\ nv_pc = "escaped" => (nv_started = <<>> /\ nv_log = <<>>)

\* C13 witness: the three strategies raised, the third on its last click
\* with a stale element.
C13_Witness ==
    /\ nv_pc = "noviable"
    /\ nv_click = 2
    /\ nv_log[3].err = "stale"

(***************************************************************************)
(* Properties of the batch: run_all_reports, process_single_report, main   *)
(***************************************************************************)

\* The run of main is between its first statement and the end of its
\* finally clause.
InRun == m_pc \notin {"sched", "off"}

\* process_single_report is running for REPORTS[r_i].
InProcess == m_pc = "run" /\ r_status = "running" /\ p_pc \notin {"none", "next"}

\* process_single_report is about to return (a path, or None).
AtReportEnd == m_pc = "run" /\ r_status = "running" /\ p_pc \in {"ret", "fail"}

\* The report has two or more page rules that are not None.
Ambiguous(rep) ==
    Cardinality({fld \in {"extract_page", "drop_pages", "drop_last_pages"} :
                    rep[fld] # "None"}) >= 2

\* The immediate loop of lines 581-591 makes at least one attempt.
ImmediateEnabled == FORCE_EXPORT_IMMEDIATE /\ IMMEDIATE_TRIES >= 1

\* C1 as stated: run_all_reports never aborts because of one report: it is
\* never left by an exception, and when it returns every report of the list
\* is either in ok_paths or in falhas.
C1_BatchNeverAborts ==
    /\ r_status # "raised"
    /\ r_status = "returned" => Len(ok_paths) + Len(falhas) = Len(REPORTS)

\* C2 as stated: the run of day D works with the date of day D: during a
\* run the date of RUN_DIR is the day of the run, and so is the date of
\* every artifact and of the mail of that run.
C2_RunDatedWithItsDay ==
    InRun =>
       /\ DATA_HOJE = run_day
       /\ \A i \in 1..Len(ok_paths) : ok_paths[i].date = run_day
       /\ \A i \in 1..Len(merged) : merged[i].date = run_day
       /\ \A i \in 1..Len(sent) : sent[i].date = run_day

\* C3 as stated: at the end of a report whose export stage was reached,
\* there were at most IMMEDIATE_TRIES + 1 navigation+confirm attempts (at
\* most 1 with the immediate mode off), and if the immediate mode is off or
\* every immediate attempt failed, the idle-gated fallback was performed
\* exactly once.
C3_FallbackExactlyOnce ==
    (AtReportEnd /\ "export" \in p_ops) =>
       /\ p_navAttempts <= (IF ImmediateEnabled THEN IMMEDIATE_TRIES ELSE 0) + 1
       /\ (~ImmediateEnabled \/ p_immFailed = IMMEDIATE_TRIES) => p_fallbacks = 1

\* C4 as stated: a report in which confirm_pdf_export raised ends in the
\* failures list: it never returns a path, and once it is over its name is
\* the last of falhas.
C4_ConfirmErrorFailsReport ==
    p_confirmFailed # {} =>
       /\ p_pc # "ret"
       /\ p_pc = "next" => (falhas # <<>> /\ falhas[Len(falhas)] = r_i - 1)

\* C4 amended: a report in which confirm_pdf_export raised during the
\* idle-gated fallback attempt ends in the failures list and the batch goes
\* on: the report goes to the except clause, never returns a path, and once
\* it is over its name is the last of falhas and run_all_reports is still
\* running.  (A confirmation error in an immediate attempt is retried.)
C4_ConfirmErrorInFallbackFailsReport ==
    "fallback" \in p_confirmFailed =>
       /\ p_pc \in {"fail", "next"}
       /\ p_pc = "next" =>
             /\ falhas # <<>>
             /\ falhas[Len(falhas)] = r_i - 1
             /\ r_status = "running"
             /\ m_pc = "run"

\* C4 witness: the confirmation failed in the fallback attempt of the first
\* of two reports, and the loop is about to take the second.
C4_Witness ==
    /\ p_pc = "next"
    /\ "fallback" \in p_confirmFailed
    /\ r_i = 2
    /\ Len(REPORTS) = 2

\* C5 as stated: with an ambiguous report anywhere in the list, nothing of
\* the run touches the browser: no session is opened and no page of any
\* report is loaded or clicked.
C5_AmbiguousListRejectedBeforeRun ==
    (\E i \in 1..Len(REPORTS) : Ambiguous(REPORTS[i])) =>
       /\ driver = "none"
       /\ run_ops = {}

\* C6: while process_single_report runs for a report with two or more page
\* rules, it is at its first statement and has done no page load, refresh,
\* lookup or click, no directory snapshot and no download wait; and the
\* configuration error is raised only for such a report, with none of that
\* done.
C6_AmbiguousReportAbortsAtValidation ==
    /\ (InProcess /\ Ambiguous(REPORTS[r_i])) => (p_pc = "start" /\ p_ops = {})
    /\ r_status = "raised" => (Ambiguous(REPORTS[r_i]) /\ p_ops = {})

\* C6 witness: the second report is ambiguous and raised the configuration
\* error, after the first report had loaded its page.
C6_Witness ==
    /\ r_status = "raised"
    /\ r_i = 2
    /\ "page" \in run_ops
    /\ p_ops = {}

\* C14: the immediate-mode retry protocol.  At most IMMEDIATE_TRIES
\* immediate attempts are made; while an export attempt runs or the fallback
\* is about to start, every failed immediate attempt has been followed by a
\* page reload that returned; and after an immediate attempt succeeded there
\* is no further attempt, no reload and no fallback: the successful attempt
\* is the last one and only the failed ones were followed by a reload.
C14_ImmediateRetryProtocol ==
    InProcess =>
       /\ p_attempt <= IMMEDIATE_TRIES
       /\ p_navAttempts <= (IF ImmediateEnabled THEN IMMEDIATE_TRIES ELSE 0)
                             + (IF p_mode = "fallback" THEN 1 ELSE 0)
       /\ p_pc \in {"nav", "subclick", "confirm", "fallback"} => p_reloads = p_immFailed
       /\ p_immediate_ok =>
             /\ p_pc \in {"download", "move", "rule", "ret", "fail"}
             /\ p_navAttempts = p_immFailed + 1
             /\ p_reloads = p_immFailed
             /\ p_fallbacks = 0

\* C14 witness: two immediate attempts failed, each was followed by a
\* reload, the third succeeded and the report is done.
C14_Witness ==
    /\ InProcess
    /\ p_pc = "ret"
    /\ p_immediate_ok
    /\ p_immFailed = 2
    /\ p_reloads = 2
    /\ p_navAttempts = DEFAULT_IMMEDIATE_TRIES

\* run_all_reports has returned and main has not ended.
AfterBatch == InRun /\ r_status = "returned"

\* C15: when run_all_reports returns an empty ok_paths, main does no merge,
\* no recipient lookup and no mail dispatch, and writes no merged file.
C15_NoSuccessNoDownstream ==
    (AfterBatch /\ ok_paths = <<>>) =>
       /\ m_pc \in {"check", "finally"}
       /\ run_ops \cap {"merge", "recipients", "send"} = {}
       /\ merged = <<>>
       /\ sent = <<>>
       /\ m_recipients = "unread"
       /\ \A f \in run_files : \E i \in 1..Len(REPORTS) : f.stem = ReportName(i)

\* C15 witness: both reports of the list failed and main is leaving.
C15_Witness ==
    /\ AfterBatch
    /\ m_pc = "finally"
    /\ ok_paths = <<>>
    /\ Len(falhas) = 2

\* main is leaving after a batch with at least one success and one failure.
MixedBatchDone ==
    AfterBatch /\ m_pc = "finally" /\ ok_paths # <<>> /\ falhas # <<>>

\* The mail that was sent lists every failed report and carries the merged
\* file, and the merged file was made of exactly the successful artifacts.
MergedAndSent ==
    /\ merged # <<>>
    /\ merged[1].paths = ok_paths
    /\ sent # <<>>
    /\ \A i \in 1..Len(falhas) : \E j \in 1..Len(sent[1].failed) : sent[1].failed[j] = falhas[i]
    /\ sent[1].attach \in run_files

\* C16 as stated: a batch with at least one success and at least one
\* failure ends with the successful artifacts merged and the notification
\* dispatched, every failed report named in its body.
C16_MixedBatchMergesAndSends == MixedBatchDone => MergedAndSent

\* C16 amended: a batch with at least one success and at least one failure
\* always goes on to the merge; when no step raised and read_recipients
\* found an address, the successful artifacts are merged and the
\* notification is dispatched with every failed report named in its body;
\* when read_recipients found none, nothing is sent; and whatever was
\* merged or sent was made of exactly ok_paths and falhas.
C16_MixedBatchMergesAndSendsIfRecipients ==
    MixedBatchDone =>
       /\ "merge" \in run_ops
       /\ (~m_exc /\ m_recipients = "some") => MergedAndSent
       /\ m_recipients = "empty" => (sent = <<>> /\ merged # <<>>)
       /\ merged # <<>> => merged[1].paths = ok_paths
       /\ sent # <<>> => MergedAndSent

\* C16 witness: one report succeeded, the other failed, and the mail went
\* out naming the failed one.
C16_Witness ==
    /\ MixedBatchDone
    /\ Len(REPORTS) = 2
    /\ sent # <<>>
    /\ sent[1].failed = falhas

\* C17: after run_all_reports returns, every report of the list is in
\* exactly one of ok_paths and falhas, both are in list order, and
\* merge_pdfs received the successful artifacts in that order.
C17_BatchResultPartitionsInOrder ==
    AfterBatch =>
       /\ Len(ok_paths) + Len(falhas) = Len(REPORTS)
       /\ \A i \in 1..Len(REPORTS) :
             (\E j \in 1..Len(ok_paths) : ok_paths[j].rep = i)
                 # (\E j \in 1..Len(falhas) : falhas[j] = i)
       /\ \A j, k \in 1..Len(ok_paths) : j < k => ok_paths[j].rep < ok_paths[k].rep
       /\ \A j, k \in 1..Len(falhas) : j < k => falhas[j] < falhas[k]
       /\ merged # <<>> => merged[1].paths = ok_paths

\* C17 witness: every report of a list of two succeeded and the two
\* artifacts were merged.
C17_Witness ==
    /\ AfterBatch
    /\ Len(ok_paths) = 2
    /\ falhas = <<>>
    /\ merged # <<>>

\* The suffixes of the page rules that are set to a true value in rep:
\* pg{N} for extract_page, sem_ult for drop_last_pages, sem_paginas for
\* drop_pages.
TrueRuleSuffixes(rep) ==
    (IF rep.extract_page = "true" THEN {"pg"} ELSE {})
    \cup (IF rep.drop_last_pages = "true" THEN {"sem_ult"} ELSE {})
    \cup (IF rep.drop_pages = "true" THEN {"sem_paginas"} ELSE {})

\* The files of the run directory are named as the naming scheme says, the
\* merged file having the given stem.
NamingScheme(mergedStem) ==
    /\ \A f \in run_files :
          /\ f.date = DATA_HOJE
          /\ \/ /\ \E i \in 1..Len(REPORTS) : f.stem = ReportName(i)
                /\ f.suffix \in {"", "pg", "sem_ult", "sem_paginas"}
             \/ f.stem = mergedStem /\ f.suffix = ""
    /\ (InProcess /\ p_pc \in {"rule", "ret"}) =>
          [stem |-> ReportName(r_i), date |-> DATA_HOJE, suffix |-> ""] \in run_files
    /\ (InProcess /\ p_pc = "ret") =>
          LET sfx == TrueRuleSuffixes(REPORTS[r_i])
          IN IF sfx = {}
                THEN p_final[1].suffix = "raw"
                ELSE /\ p_final[1].suffix \in sfx
                     /\ \A x \in sfx :
                           [stem |-> ReportName(r_i), date |-> DATA_HOJE, suffix |-> x]
                              \in run_files
    /\ merged # <<>> =>
          [stem |-> mergedStem, date |-> DATA_HOJE, suffix |-> ""] \in run_files

\* C18 as stated: the raw download is {report}_{date}.pdf, a derivative is
\* {report}_{date}_{suffix}.pdf and the merged file is Indicadores_{date}.pdf.
C18_ArtifactNames == NamingScheme("Indicadores")

\* C18 amended: the raw download is {report}_{date}.pdf, a derivative is
\* {report}_{date}_{suffix}.pdf with suffix pg{N}, sem_ult or sem_paginas,
\* and the merged file is IndicadoresDiarios_{date}.pdf.
C18_ArtifactNamesDiarios == NamingScheme("IndicadoresDiarios")

\* C18 witness: a report with drop_last_pages set left its raw download and
\* its _sem_ult derivative, and the merged file was written.
C18_Witness ==
    /\ merged # <<>>
    /\ \E i \in 1..Len(REPORTS) :
          /\ REPORTS[i].drop_last_pages = "true"
          /\ [stem |-> ReportName(i), date |-> DATA_HOJE, suffix |-> ""] \in run_files
          /\ [stem |-> ReportName(i), date |-> DATA_HOJE, suffix |-> "sem_ult"] \in run_files

\* run_all_reports is in its loop.
InBatch == m_pc = "run" /\ r_status = "running"

\* The report that process_single_report has just returned from was
\* appended to falhas.
JustFailed == p_pc = "next" /\ falhas # <<>> /\ falhas[Len(falhas)] = r_i - 1

\* The report that process_single_report has just returned from was
\* appended to ok_paths.
JustSucceeded == p_pc = "next" /\ ok_paths # <<>> /\ ok_paths[Len(ok_paths)].rep = r_i - 1

\* C19: the fallback is idle-gated.  export_to_pdf_immediate runs for the
\* fallback only when wait_report_idle has returned success; after a
\* readiness timeout the report goes to the failures with no navigation
\* attempt in the fallback (every attempt made was a failed immediate one),
\* no confirmation and no download wait.
C19_FallbackIdleGated ==
    InBatch =>
       /\ p_mode = "fallback" => p_idle = "ok"
       /\ p_idle = "timeout" =>
             /\ p_pc = "fail" \/ JustFailed
             /\ p_mode = "immediate"
             /\ p_navAttempts = p_immFailed
             /\ ~p_confirmed
             /\ "download_wait" \notin p_ops

\* C19 witness: every immediate attempt failed, readiness timed out in the
\* fallback and the report was recorded as failed.
C19_Witness ==
    /\ InBatch
    /\ JustFailed
    /\ p_idle = "timeout"
    /\ p_immFailed = DEFAULT_IMMEDIATE_TRIES

\* C20: the order of the protocol of a report.  The format sub-click comes
\* after a navigation that returned "direct"; confirmation comes after a
\* navigation that succeeded in the same attempt, with the sub-click made
\* exactly when the variant is direct; the download wait comes after a
\* confirmation that succeeded; the file is moved and the page rule applied
\* after the watcher returned a path; and the report is recorded as a
\* success after all of them.
C20_ProtocolOrder ==
    InBatch =>
       /\ p_pc = "subclick" => (p_navTag = "direct" /\ ~p_subclicked)
       /\ p_pc = "confirm" =>
             /\ p_navTag \in {"direct", "overflow", "filemenu"}
             /\ p_subclicked <=> p_navTag = "direct"
       /\ p_pc = "download" => (p_confirmed /\ ~p_downloaded)
       /\ p_pc \in {"move", "rule"} => (p_confirmed /\ p_downloaded /\ p_final = <<>>)
       /\ p_pc = "ret" => (p_confirmed /\ p_downloaded /\ p_final # <<>>)
       /\ JustSucceeded => (p_confirmed /\ p_downloaded /\ p_final # <<>>)
       /\ \A j \in 1..Len(ok_paths) : ok_paths[j].rep < r_i

\* C20 witness: a report was recorded as a success after one failed
\* immediate attempt and a second one that went through.
C20_Witness ==
    /\ InBatch
    /\ JustSucceeded
    /\ p_immFailed = 1
    /\ p_immediate_ok

\* The suffix of the rule that Report.validate counts as set (a field that
\* is not None), "raw" when no field is set.
ActiveSuffix(rep) ==
    IF rep.extract_page # "None" THEN "pg"
    ELSE IF rep.drop_last_pages # "None" THEN "sem_ult"
    ELSE IF rep.drop_pages # "None" THEN "sem_paginas"
    ELSE "raw"

\* C21: the page rule applied is the rule of the validated report.  Every
\* success recorded for a report that passes validation is the derivative of
\* the one rule whose field is not None (a value of 0 or an empty list
\* included), and the raw download when no field is set.
C21_FinalArtifactIsOfActiveRule ==
    \A j \in 1..Len(ok_paths) :
        ValidateFlags(REPORTS[ok_paths[j].rep]) <= 1 =>
            ok_paths[j].suffix = ActiveSuffix(REPORTS[ok_paths[j].rep])

(***************************************************************************)
(* Properties of switch_to_frame_with (checked under SpecFrame)            *)
(***************************************************************************)

\* The documents of the running sweep were looked into in the order top
\* level, first iframe, second iframe, ...
SweepInOrder == \A i \in 1..Len(sf_log) : sf_log[i].doc = i - 1

\* The function returned True at the first document whose lookup gave the
\* element, with the driver's context in that document.
FoundAtFirst ==
    sf_pc = "True" =>
       /\ sf_log # <<>>
       /\ sf_log[Len(sf_log)].out = "found"
       /\ sf_ctx = sf_log[Len(sf_log)].doc
       /\ \A i \in 1..(Len(sf_log) - 1) : sf_log[i].out # "found"

\* The function returned False once the window had elapsed.
ExhaustedAfterWindow == sf_pc = "False" => sf_now >= sf_end

\* No sweep begins at or after the deadline.
NoSweepBeginsLate == sf_pc \in {"top", "list", "frame"} => sf_sweepAt < sf_end

\* The search apart from its exits: order, first find, window.
C22_SearchOrderAndWindow ==
    /\ SweepInOrder
    /\ FoundAtFirst
    /\ ExhaustedAfterWindow
    /\ NoSweepBeginsLate

\* C22: the sub-document search.  Each sweep looks into the top-level
\* document before the iframes, returns True at the first document that has
\* the element with the context left there, returns False after the window,
\* begins no sweep after the deadline, and never raises.
C22_FrameSearchTotal ==
    /\ C22_SearchOrderAndWindow
    /\ sf_pc # "raised"

\* C23: every report reaches a terminal state and the batch terminates.
\* Once run_all_reports has been called, every report of the list is
\* returned from, with a path or with None, and run_all_reports returns.
C23_BatchReturns == (r_status = "running") ~> (r_status = "returned")

\* The same for the lists that have no ambiguous report.
BatchReturnsUnlessAmbiguous ==
    (r_status = "running" /\ \A i \in 1..Len(REPORTS) : ~Ambiguous(REPORTS[i]))
        ~> (r_status = "returned")

(***************************************************************************)
(* Properties of the notification body (checked under SpecMail)            *)
(***************************************************************************)

\* The names listed in a list of the body.
Listed(list) == {list[k] : k \in 1..Len(list)}

\* C25: the two lists of the notification are disjoint and exact.  A report
\* is listed as processed exactly when its own artifact is in ok_paths, and
\* no name is both in the processed list and in the failures list.
C25_ListsDisjointAndExact ==
    ml_pc = "done" =>
       /\ \A i \in 1..Len(ml_reports) :
             ml_reports[i] \in Listed(ml_body.processed) <=> ml_result[i] # <<>>
       /\ Listed(ml_body.processed) \cap Listed(ml_body.failures) = {}

(***************************************************************************)
(* Properties of main's finally clause (checked under Spec)                *)
(***************************************************************************)

\* main has ended after it had opened the browser session.
MainEndedWithSession == m_pc = "sched" /\ "browser" \in run_ops

\* How main's try block was left: no success, no recipient, mail sent, or
\* an exception.
ExitPath ==
    IF m_exc THEN "exception"
    ELSE IF sent # <<>> THEN "sent"
    ELSE IF m_recipients = "empty" THEN "no_recipients"
    ELSE "no_success"

\* C26: the browser session opened by main is always closed.  Whatever the
\* way out of main's try block, driver.quit() is called exactly once before
\* main ends and not before the finally clause, and an exception of quit
\* itself does not leave main: the exception state after the clause is the
\* one before it.
C26_SessionAlwaysQuitOnce ==
    /\ [](MainEndedWithSession => Len(m_quits) = 1)
    /\ [](m_pc \notin {"sched", "off"} => m_quits = <<>>)
    /\ [][m_pc = "finally" => (m_pc' = "sched" /\ m_exc' = m_exc)]_vars

\* C26 witness: the mail was sent, driver.quit() raised in the finally
\* clause, and main ended with no exception.
C26_Witness ==
    /\ MainEndedWithSession
    /\ m_quits = <<"raise">>
    /\ ExitPath = "sent"

====
